---- MODULE Spec2Model ----
(***************************************************************************)
(* Queueing port of src/main.rs: a ring of MSGS slots of SIZE bytes in a   *)
(* shared byte region, guarded by three SeqCst atomics (write_index,       *)
(* read_index, message_count).  enqueue and dequeue are modelled step by   *)
(* step (each atomic access and each byte copy is one step), so that the   *)
(* same steps serve the sequential use of the port (Spec), the lock-free   *)
(* single-producer/single-consumer use (SpecSPSC) and the writer/reader    *)
(* threads that wrap every call in the spin mutex (SpecProg).              *)
(***************************************************************************)
EXTENDS Integers, Naturals, Sequences, FiniteSets, TLC

\* const MSGS: usize = 10 (number of slots of the ring).
MSGS == 10

\* Bytes per message in the model.  The source has SIZE = 256; the copy loops
\* of enqueue and dequeue are modelled byte by byte over SIZE bytes, and two
\* bytes are the least that lets a torn message (bytes of two messages) show.
SIZE == 2

\* Largest number of successful enqueues in one run (the ring wraps twice).
MaxEnq == 23

\* The k-th payload is the bytes k, k+stride, k+2*stride, ...; stride 0 is the
\* tagged message Message([k as u8; SIZE]) of the writers of the source.
MaxStride == 1

\* Largest number of enqueue calls each of two unsynchronised writers makes.
MaxMwCalls == 2

\* Iterations of the writer loop and of the reader loop: `for i in 0..10`.
Iterations == 10

Byte == 256

\* The writer and the reader of the program, and a second writer for the
\* unsynchronised two-writer use.
Ctx == {"writer", "reader", "writer2"}

VARIABLES
    ctor,           \* "none" before QueueingPort::new, then "ready" or "panic"
    buffer,         \* the shared region, SIZE * MSGS bytes
    write_index,    \* AtomicUsize
    read_index,     \* AtomicUsize
    message_count,  \* AtomicUsize
    pc,             \* per context: the step of enqueue/dequeue it is at
    idx,            \* per context: the local write_index / read_index
    ii,             \* per context: the loop variable i of the copy loop
    msg,            \* per context: the argument `message` / the local msg_array
    res,            \* per context: the result of its last call
    sent,           \* history: payloads of the successful enqueues, in order
    recv,           \* history: payloads returned by the successful dequeues
    stride,         \* shape of the payloads of this run
    lock,           \* spin::Mutex: "free" or the context holding the guard
    t_pc,           \* per thread of the writer/reader program: its position
    iter            \* per thread: its loop counter

portVars == <<buffer, write_index, read_index, message_count>>
ctxVars == <<pc, idx, ii, msg, res>>
histVars == <<sent, recv>>
threadVars == <<lock, t_pc, iter>>
vars == <<ctor, buffer, write_index, read_index, message_count,
          pc, idx, ii, msg, res, sent, recv, stride, lock, t_pc, iter>>

\* [0u8; SIZE]
ZeroMsg == [j \in 0..(SIZE - 1) |-> 0]

\* Message([t as u8; SIZE])
Message(t) == [j \in 0..(SIZE - 1) |-> t % Byte]

\* The payload of the n-th successful enqueue (n from 0) of a run.
Payload(n) == [j \in 0..(SIZE - 1) |-> (n + j * stride) % Byte]

\* The SIZE bytes of slot s of the region, as a message.
Slot(buf, s) == [j \in 0..(SIZE - 1) |-> buf[s * SIZE + j]]

AllIdle == \A c \in Ctx : pc[c] = "idle"

InitCommon ==
    /\ ctor = "none"
    /\ buffer = [b \in 0..(SIZE * MSGS - 1) |-> 0]
    /\ write_index = 0
    /\ read_index = 0
    /\ message_count = 0
    /\ pc = [c \in Ctx |-> "idle"]
    /\ idx = [c \in Ctx |-> 0]
    /\ ii = [c \in Ctx |-> 0]
    /\ msg = [c \in Ctx |-> ZeroMsg]
    /\ res = [c \in Ctx |-> "none"]
    /\ sent = <<>>
    /\ recv = <<>>
    /\ lock = "free"
    /\ t_pc = [c \in Ctx |-> "lock"]
    /\ iter = [c \in Ctx |-> 0]

Init ==
    /\ InitCommon
    /\ stride \in 0..MaxStride

(***************************************************************************)
(* QueueingPort::new: the region is created and unwrapped; when the region *)
(* cannot be created the unwrap panics and the panic handler loops forever.*)
(***************************************************************************)
New(shmemOk) ==
    /\ ctor = "none"
    /\ IF shmemOk
       THEN /\ ctor' = "ready"
            /\ buffer' = [b \in 0..(SIZE * MSGS - 1) |-> 0]
            /\ write_index' = 0
            /\ read_index' = 0
            /\ message_count' = 0
            /\ UNCHANGED <<ctxVars, histVars, stride, threadVars>>
       ELSE /\ ctor' = "panic"
            /\ UNCHANGED <<portVars, ctxVars, histVars, stride, threadVars>>

(***************************************************************************)
(* QueueingPort::enqueue, one step per atomic access or byte copy.         *)
(***************************************************************************)
\* Variant of EnqCheck: the capacity test written `> MSGS`.
EnqCheckOffByOne(c, m) ==
    /\ ctor = "ready"
    /\ pc[c] = "idle"
    /\ msg' = [msg EXCEPT ![c] = m]
    /\ IF message_count > MSGS
       THEN /\ res' = [res EXCEPT ![c] = "FullBuffer"]
            /\ pc' = pc
       ELSE /\ res' = [res EXCEPT ![c] = "none"]
            /\ pc' = [pc EXCEPT ![c] = "enq_load"]
    /\ UNCHANGED <<ctor, portVars, idx, ii, histVars, stride>>

\* if self.message_count.load(SeqCst) >= MSGS { return Err(FullBuffer) }
EnqCheck(c, m) ==
    /\ ctor = "ready"
    /\ pc[c] = "idle"
    /\ msg' = [msg EXCEPT ![c] = m]
    /\ IF message_count >= MSGS
       THEN /\ res' = [res EXCEPT ![c] = "FullBuffer"]
            /\ pc' = pc
       ELSE /\ res' = [res EXCEPT ![c] = "none"]
            /\ pc' = [pc EXCEPT ![c] = "enq_load"]
    /\ UNCHANGED <<ctor, portVars, idx, ii, histVars, stride>>

\* Variant of EnqLoad: message_count is incremented before the copy.
EnqLoadPublishEarly(c) ==
    /\ pc[c] = "enq_load"
    /\ idx' = [idx EXCEPT ![c] = write_index]
    /\ ii' = [ii EXCEPT ![c] = 0]
    /\ pc' = [pc EXCEPT ![c] = "enq_copy"]
    /\ message_count' = message_count + 1
    /\ UNCHANGED <<ctor, buffer, write_index, read_index, msg, res, histVars, stride>>

\* let write_index = self.write_index.load(SeqCst); let start = ...
EnqLoad(c) ==
    /\ pc[c] = "enq_load"
    /\ idx' = [idx EXCEPT ![c] = write_index]
    /\ ii' = [ii EXCEPT ![c] = 0]
    /\ pc' = [pc EXCEPT ![c] = "enq_copy"]
    /\ UNCHANGED <<ctor, portVars, msg, res, histVars, stride>>

\* Variant of EnqCopy: start is computed from the slot after write_index.
EnqCopyNextSlot(c) ==
    /\ pc[c] = "enq_copy"
    /\ ((idx[c] + 1) % MSGS) * SIZE + ii[c] \in DOMAIN buffer
    /\ buffer' = [buffer EXCEPT ![((idx[c] + 1) % MSGS) * SIZE + ii[c]] = msg[c][ii[c]]]
    /\ ii' = [ii EXCEPT ![c] = ii[c] + 1]
    /\ pc' = [pc EXCEPT ![c] = IF ii[c] + 1 < SIZE THEN "enq_copy" ELSE "enq_store"]
    /\ UNCHANGED <<ctor, write_index, read_index, message_count, idx, msg, res,
                   histVars, stride>>

\* for i in 0..SIZE { self.buffer[start + i] = message.0[i]; }
EnqCopy(c) ==
    /\ pc[c] = "enq_copy"
    /\ idx[c] * SIZE + ii[c] \in DOMAIN buffer
    /\ buffer' = [buffer EXCEPT ![idx[c] * SIZE + ii[c]] = msg[c][ii[c]]]
    /\ ii' = [ii EXCEPT ![c] = ii[c] + 1]
    /\ pc' = [pc EXCEPT ![c] = IF ii[c] + 1 < SIZE THEN "enq_copy" ELSE "enq_store"]
    /\ UNCHANGED <<ctor, write_index, read_index, message_count, idx, msg, res,
                   histVars, stride>>

\* Variant of EnqStore: the cursor advances by two.
EnqStoreSkip(c) ==
    /\ pc[c] = "enq_store"
    /\ write_index' = (idx[c] + 2) % MSGS
    /\ pc' = [pc EXCEPT ![c] = "enq_add"]
    /\ UNCHANGED <<ctor, buffer, read_index, message_count, idx, ii, msg, res,
                   histVars, stride>>

\* Variant of EnqStore: the cursor is stored without the `% MSGS`.
EnqStoreNoWrap(c) ==
    /\ pc[c] = "enq_store"
    /\ write_index' = idx[c] + 1
    /\ pc' = [pc EXCEPT ![c] = "enq_add"]
    /\ UNCHANGED <<ctor, buffer, read_index, message_count, idx, ii, msg, res,
                   histVars, stride>>

\* self.write_index.store((write_index + 1) % MSGS, SeqCst);
EnqStore(c) ==
    /\ pc[c] = "enq_store"
    /\ write_index' = (idx[c] + 1) % MSGS
    /\ pc' = [pc EXCEPT ![c] = "enq_add"]
    /\ UNCHANGED <<ctor, buffer, read_index, message_count, idx, ii, msg, res,
                   histVars, stride>>

\* Variant of EnqAdd: fetch_add(2).
EnqAddTwo(c) ==
    /\ pc[c] = "enq_add"
    /\ message_count' = message_count + 2
    /\ res' = [res EXCEPT ![c] = "Ok"]
    /\ pc' = [pc EXCEPT ![c] = "idle"]
    /\ sent' = Append(sent, msg[c])
    /\ UNCHANGED <<ctor, buffer, write_index, read_index, idx, ii, msg, recv, stride>>

\* self.message_count.fetch_add(1, SeqCst); Ok(())
EnqAdd(c) ==
    /\ pc[c] = "enq_add"
    /\ message_count' = message_count + 1
    /\ res' = [res EXCEPT ![c] = "Ok"]
    /\ pc' = [pc EXCEPT ![c] = "idle"]
    /\ sent' = Append(sent, msg[c])
    /\ UNCHANGED <<ctor, buffer, write_index, read_index, idx, ii, msg, recv, stride>>

(***************************************************************************)
(* QueueingPort::dequeue, one step per atomic access or byte copy.         *)
(***************************************************************************)
\* Variant of DeqCheck: the empty test compares with MSGS instead of 0.
DeqCheckWrongBound(c) ==
    /\ ctor = "ready"
    /\ pc[c] = "idle"
    /\ IF message_count = MSGS
       THEN /\ res' = [res EXCEPT ![c] = "EmptyBuffer"]
            /\ pc' = pc
       ELSE /\ res' = [res EXCEPT ![c] = "none"]
            /\ pc' = [pc EXCEPT ![c] = "deq_load"]
    /\ UNCHANGED <<ctor, portVars, idx, ii, msg, histVars, stride>>

\* if self.message_count.load(SeqCst) == 0 { return Err(EmptyBuffer) }
DeqCheck(c) ==
    /\ ctor = "ready"
    /\ pc[c] = "idle"
    /\ IF message_count = 0
       THEN /\ res' = [res EXCEPT ![c] = "EmptyBuffer"]
            /\ pc' = pc
       ELSE /\ res' = [res EXCEPT ![c] = "none"]
            /\ pc' = [pc EXCEPT ![c] = "deq_load"]
    /\ UNCHANGED <<ctor, portVars, idx, ii, msg, histVars, stride>>

\* Variant of DeqLoad: the slot is taken from write_index.
DeqLoadWriteCursor(c) ==
    /\ pc[c] = "deq_load"
    /\ idx' = [idx EXCEPT ![c] = write_index]
    /\ ii' = [ii EXCEPT ![c] = 0]
    /\ msg' = [msg EXCEPT ![c] = ZeroMsg]
    /\ pc' = [pc EXCEPT ![c] = "deq_copy"]
    /\ UNCHANGED <<ctor, portVars, res, histVars, stride>>

\* let read_index = self.read_index.load(SeqCst); let mut msg_array = [0u8; SIZE];
DeqLoad(c) ==
    /\ pc[c] = "deq_load"
    /\ idx' = [idx EXCEPT ![c] = read_index]
    /\ ii' = [ii EXCEPT ![c] = 0]
    /\ msg' = [msg EXCEPT ![c] = ZeroMsg]
    /\ pc' = [pc EXCEPT ![c] = "deq_copy"]
    /\ UNCHANGED <<ctor, portVars, res, histVars, stride>>

\* for i in 0..SIZE { msg_array[i] = self.buffer[start + i]; }
DeqCopy(c) ==
    /\ pc[c] = "deq_copy"
    /\ idx[c] * SIZE + ii[c] \in DOMAIN buffer
    /\ msg' = [msg EXCEPT ![c][ii[c]] = buffer[idx[c] * SIZE + ii[c]]]
    /\ ii' = [ii EXCEPT ![c] = ii[c] + 1]
    /\ pc' = [pc EXCEPT ![c] = IF ii[c] + 1 < SIZE THEN "deq_copy" ELSE "deq_store"]
    /\ UNCHANGED <<ctor, portVars, idx, res, histVars, stride>>

\* Variant of DeqStore: the read cursor is stored back unchanged.
DeqStoreStuck(c) ==
    /\ pc[c] = "deq_store"
    /\ read_index' = idx[c] % MSGS
    /\ pc' = [pc EXCEPT ![c] = "deq_sub"]
    /\ UNCHANGED <<ctor, buffer, write_index, message_count, idx, ii, msg, res,
                   histVars, stride>>

\* Variant of DeqStore: the cursor is stored without the `% MSGS`.
DeqStoreNoWrap(c) ==
    /\ pc[c] = "deq_store"
    /\ read_index' = idx[c] + 1
    /\ pc' = [pc EXCEPT ![c] = "deq_sub"]
    /\ UNCHANGED <<ctor, buffer, write_index, message_count, idx, ii, msg, res,
                   histVars, stride>>

\* self.read_index.store((read_index + 1) % MSGS, SeqCst);
DeqStore(c) ==
    /\ pc[c] = "deq_store"
    /\ read_index' = (idx[c] + 1) % MSGS
    /\ pc' = [pc EXCEPT ![c] = "deq_sub"]
    /\ UNCHANGED <<ctor, buffer, write_index, message_count, idx, ii, msg, res,
                   histVars, stride>>

\* self.message_count.fetch_sub(1, SeqCst); Ok(Message(msg_array))
DeqSub(c) ==
    /\ pc[c] = "deq_sub"
    /\ message_count' = message_count - 1
    /\ res' = [res EXCEPT ![c] = "Ok"]
    /\ pc' = [pc EXCEPT ![c] = "idle"]
    /\ recv' = Append(recv, msg[c])
    /\ UNCHANGED <<ctor, buffer, write_index, read_index, idx, ii, msg, sent, stride>>

(***************************************************************************)
(* Sequential use: &mut self gives each call the port to itself, so a call *)
(* starts only when no other call is in flight.                            *)
(***************************************************************************)
Construct == \E ok \in BOOLEAN : New(ok)

SeqEnqueue ==
    /\ AllIdle
    /\ Len(sent) < MaxEnq
    /\ EnqCheck("writer", Payload(Len(sent)))
    /\ UNCHANGED threadVars

SeqDequeue ==
    /\ AllIdle
    /\ DeqCheck("reader")
    /\ UNCHANGED threadVars

WLoad == EnqLoad("writer") /\ UNCHANGED threadVars
WCopy == EnqCopy("writer") /\ UNCHANGED threadVars
WStore == EnqStore("writer") /\ UNCHANGED threadVars
WAdd == EnqAdd("writer") /\ UNCHANGED threadVars
RLoad == DeqLoad("reader") /\ UNCHANGED threadVars
RCopy == DeqCopy("reader") /\ UNCHANGED threadVars
RStore == DeqStore("reader") /\ UNCHANGED threadVars
RSub == DeqSub("reader") /\ UNCHANGED threadVars

Next ==
    \/ Construct
    \/ SeqEnqueue
    \/ SeqDequeue
    \/ WLoad
    \/ WCopy
    \/ WStore
    \/ WAdd
    \/ RLoad
    \/ RCopy
    \/ RStore
    \/ RSub

Spec == Init /\ [][Next]_vars

(***************************************************************************)
(* Properties of the sequential use of the port (Spec).                    *)
(***************************************************************************)
\* C1: FIFO -- the n-th successful dequeue returned exactly the payload of
\* the n-th successful enqueue, byte for byte, also after the cursors wrapped.
FifoOrder ==
    /\ Len(recv) <= Len(sent)
    /\ \A n \in 1..Len(recv) : recv[n] = sent[n]

\* The ring wrapped twice and the last dequeue returned a non-uniform payload.
FifoOrderWitness ==
    /\ Len(recv) > 2 * MSGS
    /\ stride > 0
    /\ recv[Len(recv)] = Payload(Len(recv) - 1)
    /\ AllIdle

\* C2: message_count is the number of successful enqueues minus the number of
\* successful dequeues, and lies in [0, MSGS].
OccupancyCount ==
    /\ message_count = Len(sent) - Len(recv)
    /\ message_count >= 0
    /\ message_count <= MSGS

\* The port is full again after messages were taken out of it.
OccupancyCountWitness ==
    /\ message_count = MSGS
    /\ Len(recv) > MSGS
    /\ AllIdle

\* C3 as stated: with no call in flight, (write_index - read_index) mod MSGS
\* equals message_count in every state from Empty through Full.
CursorDeltaIsCount ==
    (ctor = "ready" /\ AllIdle) =>
        (write_index - read_index) % MSGS = message_count

\* C3 amended: with no call in flight, (write_index - read_index) mod MSGS
\* equals message_count when the port is not full, and 0 when it is full.
CursorDeltaIsCountModCapacity ==
    (ctor = "ready" /\ AllIdle) =>
        (write_index - read_index) % MSGS =
            (IF message_count = MSGS THEN 0 ELSE message_count)

\* A full port, both cursors on the same slot away from slot 0.
CursorDeltaWitness ==
    /\ ctor = "ready"
    /\ AllIdle
    /\ message_count = MSGS
    /\ write_index = read_index
    /\ write_index > 0

\* C4: a call of enqueue on a full port returns FullBuffer at once and leaves
\* the cursors, the count and every byte of the buffer as they were.
EnqueueFullRejected ==
    [][(SeqEnqueue /\ message_count = MSGS) =>
          /\ res'["writer"] = "FullBuffer"
          /\ pc'["writer"] = "idle"
          /\ buffer' = buffer
          /\ write_index' = write_index
          /\ read_index' = read_index
          /\ message_count' = message_count]_vars

\* enqueue has just been refused on a full port.
EnqueueFullWitness ==
    /\ AllIdle
    /\ message_count = MSGS
    /\ res["writer"] = "FullBuffer"

\* C5: a call of dequeue on an empty port returns EmptyBuffer at once and
\* leaves the cursors, the count and every byte of the buffer as they were.
DequeueEmptyRejected ==
    [][(SeqDequeue /\ message_count = 0) =>
          /\ res'["reader"] = "EmptyBuffer"
          /\ pc'["reader"] = "idle"
          /\ buffer' = buffer
          /\ write_index' = write_index
          /\ read_index' = read_index
          /\ message_count' = message_count]_vars

\* dequeue has just been refused on a port that was used and drained.
DequeueEmptyWitness ==
    /\ AllIdle
    /\ message_count = 0
    /\ Len(recv) > 0
    /\ res["reader"] = "EmptyBuffer"

\* C6: the step that completes a successful dequeue leaves every byte of the
\* slot it consumed equal to zero.
DequeueClearsSlot ==
    [][(pc["reader"] = "deq_sub" /\ pc'["reader"] = "idle") =>
          Slot(buffer', idx["reader"]) = ZeroMsg]_vars

\* C20: with the operations executed one at a time, between any two calls
\* write_index = (read_index + message_count) mod MSGS, hence the cursors
\* coincide exactly when the port is Empty or Full; a dequeue on a Full port
\* leaves write_index on the slot it has just freed, and the enqueue that
\* follows copies into that slot.
WriteCursorIsReadPlusCount ==
    /\ []((ctor = "ready" /\ AllIdle) =>
            /\ write_index = (read_index + message_count) % MSGS
            /\ (write_index = read_index) <=> (message_count \in {0, MSGS}))
    /\ [][(/\ pc["reader"] = "deq_sub"
           /\ pc'["reader"] = "idle"
           /\ message_count = MSGS) => write_index' = idx["reader"]]_vars
    /\ []((/\ pc["writer"] = "enq_copy"
           /\ message_count = MSGS - 1
           /\ Len(recv) > 0) => idx["writer"] = idx["reader"])

\* A dequeue has succeeded on a Full port and the enqueue that follows is in
\* its copy loop, on a slot other than slot 0.
WriteCursorWitness ==
    /\ pc["writer"] = "enq_copy"
    /\ res["reader"] = "Ok"
    /\ message_count = MSGS - 1
    /\ Len(sent) = Len(recv) + MSGS - 1
    /\ idx["writer"] = idx["reader"]
    /\ idx["writer"] > 0

\* C14: frame of a successful operation, step by step.  The buffer changes
\* only by the writer's copy, one byte of the slot at write_index at a time,
\* and when enqueue returns that slot holds exactly the message; write_index
\* changes only by the enqueue's store, to (write_index + 1) mod MSGS;
\* read_index changes only by the dequeue's store, to (read_index + 1) mod
\* MSGS; message_count changes only by +1 at the end of an enqueue and by -1
\* at the end of a dequeue.  So enqueue leaves read_index and the other slots
\* alone, and dequeue leaves write_index and every slot alone.
SuccessFrame ==
    [][/\ buffer' # buffer =>
            /\ pc["writer"] = "enq_copy"
            /\ \A b \in DOMAIN buffer : buffer'[b] # buffer[b] =>
                   (b = write_index * SIZE + ii["writer"] /\ ii["writer"] < SIZE)
       /\ write_index' # write_index =>
            /\ pc["writer"] = "enq_store"
            /\ write_index' = (write_index + 1) % MSGS
       /\ read_index' # read_index =>
            /\ pc["reader"] = "deq_store"
            /\ read_index' = (read_index + 1) % MSGS
       /\ message_count' # message_count =>
            \/ pc["writer"] = "enq_add" /\ message_count' = message_count + 1
            \/ pc["reader"] = "deq_sub" /\ message_count' = message_count - 1
       /\ (pc["writer"] = "enq_add" /\ pc'["writer"] = "idle") =>
            /\ res'["writer"] = "Ok"
            /\ Slot(buffer', (write_index' - 1) % MSGS) = msg["writer"]
            /\ message_count' = message_count + 1
       /\ (pc["reader"] = "deq_sub" /\ pc'["reader"] = "idle") =>
            /\ res'["reader"] = "Ok"
            /\ message_count' = message_count - 1
      ]_vars

\* Both kinds of call have succeeded on a ring whose write cursor has just
\* wrapped to slot 0.
SuccessFrameWitness ==
    /\ AllIdle
    /\ res["writer"] = "Ok"
    /\ res["reader"] = "Ok"
    /\ Len(sent) = 2 * MSGS
    /\ write_index = 0
    /\ read_index > 0

\* C10: construction never ends in the panic handler; a region that cannot
\* be obtained is reported to the caller of new as an error result.
ConstructionFailureReported == ctor # "panic"

(***************************************************************************)
(* Lock-free single-producer/single-consumer use: the writer context only  *)
(* enqueues, the reader context only dequeues, and their steps interleave  *)
(* freely (the atomics are SeqCst, so every interleaving of the steps is a *)
(* possible execution and no other is).                                    *)
(***************************************************************************)
SpscEnqueue ==
    /\ Len(sent) < MaxEnq
    /\ EnqCheck("writer", Payload(Len(sent)))
    /\ UNCHANGED threadVars

SpscDequeue ==
    /\ DeqCheck("reader")
    /\ UNCHANGED threadVars

NextSPSC ==
    \/ Construct
    \/ SpscEnqueue
    \/ SpscDequeue
    \/ WLoad
    \/ WCopy
    \/ WStore
    \/ WAdd
    \/ RLoad
    \/ RCopy
    \/ RStore
    \/ RSub

SpecSPSC == Init /\ [][NextSPSC]_vars

(***************************************************************************)
(* Properties of the lock-free SPSC use (SpecSPSC).                        *)
(***************************************************************************)
\* C9: the reader never copies out of the slot the writer is filling (and
\* the writer never copies into the slot the reader is copying out), and
\* every message dequeue returned is one whole enqueued message, never bytes
\* of two messages, also once slots are reused.
SlotHandOver ==
    /\ ~ (/\ pc["writer"] = "enq_copy"
          /\ pc["reader"] = "deq_copy"
          /\ idx["writer"] = idx["reader"])
    /\ \A n \in 1..Len(recv) : \E k \in 1..Len(sent) : recv[n] = sent[k]

\* Both copies are under way at once, the writer's into a reused slot, and
\* the reader has returned messages from reused slots.
SlotHandOverWitness ==
    /\ pc["writer"] = "enq_copy"
    /\ pc["reader"] = "deq_copy"
    /\ ii["writer"] > 0
    /\ ii["reader"] > 0
    /\ Len(sent) > MSGS
    /\ Len(recv) > MSGS
    /\ stride > 0

\* The steps of a call in flight, per context.
WriterSteps == WLoad \/ WCopy \/ WStore \/ WAdd
ReaderSteps == RLoad \/ RCopy \/ RStore \/ RSub

\* Number of steps a call in flight still has to take before it returns
\* (load, SIZE copies, store, fetch_add/fetch_sub); 0 when no call is in flight.
StepsLeft(c) ==
    CASE pc[c] = "idle" -> 0
      [] pc[c] \in {"enq_load", "deq_load"} -> SIZE + 3
      [] pc[c] \in {"enq_copy", "deq_copy"} -> SIZE - ii[c] + 2
      [] pc[c] \in {"enq_store", "deq_store"} -> 2
      [] pc[c] \in {"enq_add", "deq_sub"} -> 1

\* Context c takes a step of its call.
OwnStep(c) == <<pc[c], idx[c], ii[c], msg[c], res[c]>>' # <<pc[c], idx[c], ii[c], msg[c], res[c]>>

\* C11: enqueue and dequeue never block, wait or retry: whatever the other
\* context does, a call in flight always has its next step enabled, every
\* step it takes brings it one step closer to its return (at most SIZE + 4
\* steps per call), and it returns Ok or its capacity error.
CallsNeverBlock ==
    /\ [](pc["writer"] # "idle" => ENABLED WriterSteps)
    /\ [](pc["reader"] # "idle" => ENABLED ReaderSteps)
    /\ [](\A c \in {"writer", "reader"} :
            /\ StepsLeft(c) \in 0..(SIZE + 3)
            /\ pc[c] # "idle" => (StepsLeft(c) >= 1 /\ res[c] = "none"))
    /\ [](pc["writer"] = "idle" => res["writer"] \in {"none", "Ok", "FullBuffer"})
    /\ [](pc["reader"] = "idle" => res["reader"] \in {"none", "Ok", "EmptyBuffer"})
    /\ [][\A c \in {"writer", "reader"} :
            (pc[c] # "idle" /\ OwnStep(c)) => StepsLeft(c)' = StepsLeft(c) - 1]_vars

\* enqueue has returned FullBuffer while a dequeue is in flight, and dequeue
\* has returned EmptyBuffer before while enqueues were going on.
CallsNeverBlockWitness ==
    /\ pc["writer"] = "idle"
    /\ res["writer"] = "FullBuffer"
    /\ pc["reader"] = "deq_copy"
    /\ Len(recv) > MSGS

\* C15: both cursors stay in [0, MSGS), and every access of the copy loops of
\* enqueue and dequeue is at an offset slot * SIZE + i with slot < MSGS and
\* i < SIZE, hence within [0, MSGS * SIZE).
AccessInBounds ==
    /\ write_index \in 0..(MSGS - 1)
    /\ read_index \in 0..(MSGS - 1)
    /\ \A c \in Ctx : pc[c] \in {"enq_copy", "deq_copy"} =>
          /\ idx[c] \in 0..(MSGS - 1)
          /\ ii[c] \in 0..(SIZE - 1)
          /\ idx[c] * SIZE + ii[c] >= 0
          /\ idx[c] * SIZE + ii[c] < MSGS * SIZE

\* The writer is about to write the last byte of the region while the reader
\* is copying, after the ring has wrapped.
AccessInBoundsWitness ==
    /\ pc["writer"] = "enq_copy"
    /\ idx["writer"] * SIZE + ii["writer"] = MSGS * SIZE - 1
    /\ pc["reader"] = "deq_copy"
    /\ Len(sent) > MSGS

(***************************************************************************)
(* The writer and reader threads (writer, reader, test_concurrent_read_    *)
(* write): each iteration takes the spin lock, makes one call, sleeps and  *)
(* drops the guard at the end of the iteration.                            *)
(***************************************************************************)
InitProg ==
    /\ InitCommon
    /\ stride = 0

\* Variant of Lock: the guard is handed out without waiting for the holder.
LockNoWait(c) ==
    /\ ctor = "ready"
    /\ t_pc[c] = "lock"
    /\ lock' = c
    /\ t_pc' = [t_pc EXCEPT ![c] = "call"]
    /\ UNCHANGED <<ctor, portVars, ctxVars, histVars, stride, iter>>

\* let mut queue = queue.lock();
Lock(c) ==
    /\ ctor = "ready"
    /\ t_pc[c] = "lock"
    /\ lock = "free"
    /\ lock' = c
    /\ t_pc' = [t_pc EXCEPT ![c] = "call"]
    /\ UNCHANGED <<ctor, portVars, ctxVars, histVars, stride, iter>>

\* let message = Message([i as u8; SIZE]); queue.enqueue(message)
WriterCall ==
    /\ t_pc["writer"] = "call"
    /\ EnqCheck("writer", Message(iter["writer"]))
    /\ t_pc' = [t_pc EXCEPT !["writer"] = "in_call"]
    /\ UNCHANGED <<lock, iter>>

\* if queue.enqueue(message).is_err() { println!(...) }
WriterAfter ==
    /\ t_pc["writer"] = "in_call"
    /\ pc["writer"] = "idle"
    /\ t_pc' = [t_pc EXCEPT !["writer"] = "sleep"]
    /\ UNCHANGED <<ctor, portVars, ctxVars, histVars, stride, lock, iter>>

\* queue.dequeue()
ReaderCall ==
    /\ t_pc["reader"] = "call"
    /\ DeqCheck("reader")
    /\ t_pc' = [t_pc EXCEPT !["reader"] = "in_call"]
    /\ UNCHANGED <<lock, iter>>

\* if let Ok(msg) = queue.dequeue() { assert_eq!(msg.0[0], 0); }
\* A failed assertion panics: the panic handler loops forever, the guard is
\* never dropped.
ReaderAfter ==
    /\ t_pc["reader"] = "in_call"
    /\ pc["reader"] = "idle"
    /\ t_pc' = [t_pc EXCEPT !["reader"] =
                    IF res["reader"] = "Ok" /\ msg["reader"][0] # 0
                    THEN "panic" ELSE "sleep"]
    /\ UNCHANGED <<ctor, portVars, ctxVars, histVars, stride, lock, iter>>

\* thread::sleep(...); the guard goes out of scope; next iteration
EndIter(c) ==
    /\ t_pc[c] = "sleep"
    /\ lock' = "free"
    /\ iter' = [iter EXCEPT ![c] = iter[c] + 1]
    /\ t_pc' = [t_pc EXCEPT ![c] = IF iter[c] + 1 < Iterations THEN "lock" ELSE "done"]
    /\ UNCHANGED <<ctor, portVars, ctxVars, histVars, stride>>

WriterLock == Lock("writer")
ReaderLock == Lock("reader")
WriterEndIter == EndIter("writer")
ReaderEndIter == EndIter("reader")

NextProg ==
    \/ Construct
    \/ WriterLock
    \/ WriterCall
    \/ WriterAfter
    \/ WriterEndIter
    \/ ReaderLock
    \/ ReaderCall
    \/ ReaderAfter
    \/ ReaderEndIter
    \/ WLoad
    \/ WCopy
    \/ WStore
    \/ WAdd
    \/ RLoad
    \/ RCopy
    \/ RStore
    \/ RSub

SpecProg == InitProg /\ [][NextProg]_vars

(***************************************************************************)
(* Properties of the writer/reader program (SpecProg).                     *)
(***************************************************************************)
\* Thread c is between taking the guard and the return of its call.
InCall(c) == t_pc[c] \in {"call", "in_call"} \/ pc[c] # "idle"

\* C16: the writer is never inside enqueue while the reader is inside
\* dequeue: a thread holds the lock from before its call until the end of
\* its loop iteration, after the sleep.
MutualExclusion ==
    /\ ~ (InCall("writer") /\ InCall("reader"))
    /\ \A c \in {"writer", "reader"} :
          (InCall(c) \/ t_pc[c] = "sleep") => lock = c

\* The writer is in the middle of its copy while the reader, having already
\* received a message, waits for the lock.
MutualExclusionWitness ==
    /\ pc["writer"] = "enq_copy"
    /\ lock = "writer"
    /\ t_pc["reader"] = "lock"
    /\ Len(recv) > 0

\* C17: in the writer/reader program the payloads the reader has dequeued so
\* far are, at every point of every interleaving, a prefix of the payloads
\* the writer has successfully enqueued so far.
ReceivedIsPrefixOfSent ==
    /\ Len(recv) <= Len(sent)
    /\ SubSeq(sent, 1, Len(recv)) = recv

\* The reader has taken the first two messages, the second carrying tag 1,
\* while the writer is already further ahead.
ReceivedIsPrefixWitness ==
    /\ Len(recv) = 2
    /\ recv[2] = Message(1)
    /\ Len(sent) >= 4

\* C7: once both threads have finished, the reader has received exactly the
\* messages the writer produced, in order: all Iterations of them, none
\* skipped by the writer and none left in the port.
ReaderGotAll ==
    (t_pc["writer"] = "done" /\ t_pc["reader"] = "done") =>
        /\ recv = sent
        /\ Len(sent) = Iterations
        /\ message_count = 0

\* C8: every message the reader dequeued has first byte 0, and the reader's
\* assertion never fails.
ReaderAssertionHolds ==
    /\ \A n \in 1..Len(recv) : recv[n][0] = 0
    /\ t_pc["reader"] # "panic"

\* C19: in the writer/reader program the writer's enqueue never fails: the
\* occupancy is below capacity at each of the writer's calls, so the
\* "Queue full" branch is never taken and every tag sent so far is in sent.
WriterNeverFull ==
    /\ res["writer"] # "FullBuffer"
    /\ t_pc["writer"] = "call" => message_count < MSGS
    /\ t_pc["writer"] \in {"sleep", "done"} =>
          /\ res["writer"] = "Ok"
          /\ Len(sent) = iter["writer"] + (IF t_pc["writer"] = "sleep" THEN 1 ELSE 0)

\* The tightest case: the writer has finished all its iterations while the
\* reader has not taken a single message, so the port is exactly Full.
WriterNeverFullWitness ==
    /\ t_pc["writer"] = "done"
    /\ Len(sent) = Iterations
    /\ message_count = MSGS
    /\ recv = << >>

(***************************************************************************)
(* The writer/reader program under a fair scheduler: a thread that can     *)
(* take a step is eventually given the processor.                          *)
(***************************************************************************)
WriterThread ==
    \/ WriterLock
    \/ WriterCall
    \/ WriterAfter
    \/ WriterEndIter
    \/ WLoad
    \/ WCopy
    \/ WStore
    \/ WAdd

ReaderThread ==
    \/ ReaderLock
    \/ ReaderCall
    \/ ReaderAfter
    \/ ReaderEndIter
    \/ RLoad
    \/ RCopy
    \/ RStore
    \/ RSub

SpecProgFair ==
    /\ InitProg
    /\ [][NextProg]_vars
    /\ WF_vars(Construct)
    /\ WF_vars(WriterThread)
    /\ WF_vars(ReaderThread)

\* C18: under fair scheduling of the two threads, once the port is
\* constructed both the writer and the reader eventually finish their 10
\* loop iterations.  Refuted: the reader's failed assertion leaves it in the
\* panic handler with the lock held, and the writer then waits forever.
BothThreadsFinish ==
    (ctor = "ready") ~> (t_pc["writer"] = "done" /\ t_pc["reader"] = "done")

(***************************************************************************)
(* Boundary scenario: one caller fills a fresh port with the messages      *)
(* tagged 0..MSGS-1, tries one more enqueue, then dequeues MSGS + 1 times. *)
(* iter counts the calls made so far on each side.                         *)
(***************************************************************************)
BoundaryEnqueue ==
    /\ AllIdle
    /\ iter["writer"] <= MSGS
    /\ EnqCheck("writer", Message(iter["writer"]))
    /\ iter' = [iter EXCEPT !["writer"] = iter["writer"] + 1]
    /\ UNCHANGED <<lock, t_pc>>

BoundaryDequeue ==
    /\ AllIdle
    /\ iter["writer"] = MSGS + 1
    /\ iter["reader"] <= MSGS
    /\ DeqCheck("reader")
    /\ iter' = [iter EXCEPT !["reader"] = iter["reader"] + 1]
    /\ UNCHANGED <<lock, t_pc>>

NextBoundary ==
    \/ Construct
    \/ BoundaryEnqueue
    \/ BoundaryDequeue
    \/ WLoad
    \/ WCopy
    \/ WStore
    \/ WAdd
    \/ RLoad
    \/ RCopy
    \/ RStore
    \/ RSub

SpecBoundary == InitProg /\ [][NextBoundary]_vars

\* C12: in the boundary scenario the first MSGS enqueues succeed, the next
\* one returns FullBuffer, the following MSGS dequeues return the messages
\* tagged 0, 1, ..., MSGS-1 in that order and the next one returns EmptyBuffer.
BoundaryScenario ==
    AllIdle =>
        /\ iter["writer"] \in 1..MSGS =>
               (res["writer"] = "Ok" /\ Len(sent) = iter["writer"])
        /\ iter["writer"] = MSGS + 1 =>
               (res["writer"] = "FullBuffer" /\ Len(sent) = MSGS)
        /\ iter["reader"] \in 1..MSGS =>
               /\ res["reader"] = "Ok"
               /\ recv = [n \in 1..iter["reader"] |-> Message(n - 1)]
        /\ iter["reader"] = MSGS + 1 =>
               (res["reader"] = "EmptyBuffer" /\ Len(recv) = MSGS)

\* The whole scenario has run: the last dequeue was refused on the drained port.
BoundaryScenarioWitness ==
    /\ AllIdle
    /\ iter["writer"] = MSGS + 1
    /\ iter["reader"] = MSGS + 1
    /\ res["reader"] = "EmptyBuffer"
    /\ Len(recv) = MSGS

(***************************************************************************)
(* Two writer contexts running the steps of enqueue on the same port with  *)
(* no mutual exclusion.  iter counts the calls of each writer; the first   *)
(* writer sends the tags 2, 4, ..., the second the tags 1, 3, ...          *)
(***************************************************************************)
MwEnqueue1 ==
    /\ iter["writer"] < MaxMwCalls
    /\ EnqCheck("writer", Message(2 * iter["writer"] + 2))
    /\ iter' = [iter EXCEPT !["writer"] = iter["writer"] + 1]
    /\ UNCHANGED <<lock, t_pc>>

MwEnqueue2 ==
    /\ iter["writer2"] < MaxMwCalls
    /\ EnqCheck("writer2", Message(2 * iter["writer2"] + 1))
    /\ iter' = [iter EXCEPT !["writer2"] = iter["writer2"] + 1]
    /\ UNCHANGED <<lock, t_pc>>

W2Load == EnqLoad("writer2") /\ UNCHANGED threadVars
W2Copy == EnqCopy("writer2") /\ UNCHANGED threadVars
W2Store == EnqStore("writer2") /\ UNCHANGED threadVars
W2Add == EnqAdd("writer2") /\ UNCHANGED threadVars

NextMW ==
    \/ Construct
    \/ MwEnqueue1
    \/ MwEnqueue2
    \/ WLoad
    \/ WCopy
    \/ WStore
    \/ WAdd
    \/ W2Load
    \/ W2Copy
    \/ W2Store
    \/ W2Add

SpecMW == InitProg /\ [][NextMW]_vars

\* Some message whose enqueue returned Ok is in no slot of the buffer.
LostMessage ==
    \E k \in 1..Len(sent) : \A s \in 0..(MSGS - 1) : Slot(buffer, s) # sent[k]

\* C13: with two unsynchronised writers the cursor and the count come apart:
\* whenever, with no call in flight, message_count has advanced further than
\* write_index, every returned enqueue was counted but a message that was
\* enqueued with Ok is no longer in the buffer; such a state is reachable
\* (TwoWritersWitness).
TwoWritersLoseMessages ==
    (/\ ctor = "ready"
     /\ AllIdle
     /\ write_index # message_count % MSGS)
    => (message_count = Len(sent) /\ LostMessage)

\* Both writers wrote slot 0 and returned Ok: with no call in flight the
\* count has advanced by 2, the write cursor by 1, and one message is lost.
TwoWritersWitness ==
    /\ AllIdle
    /\ res["writer"] = "Ok"
    /\ res["writer2"] = "Ok"
    /\ idx["writer"] = 0
    /\ idx["writer2"] = 0
    /\ message_count = 2
    /\ write_index = 1
    /\ LostMessage
====
